---- MODULE Spec2Model ----
(***************************************************************************)
(* Model of the Motsu VM router registry (crates/motsu/src/router.rs).     *)
(*                                                                         *)
(* MOTSU_VM_ROUTERS is a process-wide DashMap from VMRouter keys           *)
(* (thread id, contract address) to VMRouterStorage entries (a router      *)
(* factory).  Test threads call exists / init_storage / reset_storage /    *)
(* route on keys built from their own thread id; a router (handler) that   *)
(* is being dispatched may call back into the registry from the same       *)
(* thread.  DashMap guards every shard (bucket) with a read-write lock;    *)
(* the shard of a key is decided by a randomly seeded hash.                *)
(***************************************************************************)
EXTENDS Integers, Sequences, FiniteSets, TLC

\* Bound on the depth of nested registry calls of one thread.
MaxDepth == 2

Threads   == {"t1", "t2"}
Addrs     == {"A", "B"}
Factories == {"F1", "F2"}
Payloads  == {"p1"}
Results   == {"Ok", "Err"}
Shards    == {"s1", "s2"}

NoEntry  == "NoEntry"
NeverInit == "never"
WasReset  == "reset"
NoRouter == "NoRouter"
NoVal    == "NoVal"
NoBox    == <<>>
NoHolder == <<>>
NoFatal  == [kind |-> "none",
             key |-> [contract_address |-> "none", thread_id |-> "none"]]

new(thread, contract_address) ==
    [contract_address |-> contract_address, thread_id |-> thread]

\* The contracts a test thread deploys: t1 drives two contracts whose routers
\* call back into the registry, t2 drives one contract.
AddrsOf(t) == IF t = "t1" THEN Addrs ELSE {"A"}
DepthOf(t) == IF t = "t1" THEN MaxDepth ELSE 1

VMRouter == {new(t, a) : t \in Threads, a \in Addrs} \ {new("t2", "B")}

VARIABLES
    map,       \* MOTSU_VM_ROUTERS: key -> stored router factory, or NoEntry
    lock,      \* per shard: the write holder and the set of read holders
    shardOf,   \* the shard every key hashes to (fixed for a run); the runs
               \* explored are those where the A keys of both threads collide
    stack,     \* per thread: the registry calls in progress, outermost first
    fatal,     \* per thread: the panic that ended the thread, if any
    hist       \* history per key: NeverInit (no init performed yet), the
               \* factory of the last successful init, or WasReset

vars == <<map, lock, shardOf, stack, fatal, hist>>

\* One registry call in progress.  (Record fields are listed in the order
\* TLC keeps them in.)
Frame(op, key, arg, pc) ==
    [key |-> key, op |-> op, arg |-> arg, pc |-> pc,
     router |-> NoRouter, hres |-> NoVal, val |-> NoVal, pre |-> NoVal,
     inst |-> NoBox]

Depth(t) == Len(stack[t])
Top(t) == stack[t][Len(stack[t])]
Holder(t) == <<t, Depth(t)>>

SetTop(t, fr) == [stack EXCEPT ![t] = [@ EXCEPT ![Len(@)] = fr]]

FreeLock == [w |-> NoHolder, r |-> {}]

\* A RefMut / shard guard is dropped.
Release(h) ==
    [s \in Shards |->
        [w |-> IF lock[s].w = h THEN NoHolder ELSE lock[s].w,
         r |-> lock[s].r \ {h}]]

\* Unwinding after a panic drops every guard the thread holds.
ReleaseAll(t) ==
    [s \in Shards |->
        [w |-> IF lock[s].w # NoHolder /\ lock[s].w[1] = t
               THEN NoHolder ELSE lock[s].w,
         r |-> {h \in lock[s].r : h[1] # t}]]

Panic(t, kind, key) ==
    /\ fatal' = [fatal EXCEPT ![t] = [kind |-> kind, key |-> key]]
    /\ stack' = [stack EXCEPT ![t] = <<>>]

Init ==
    /\ map = [k \in VMRouter |-> NoEntry]
    /\ lock = [s \in Shards |-> FreeLock]
    /\ shardOf \in [VMRouter -> Shards]
    /\ shardOf[new("t1", "A")] = "s1"
    /\ shardOf[new("t2", "A")] = "s1"
    /\ stack = [t \in Threads |-> <<>>]
    /\ fatal = [t \in Threads |-> NoFatal]
    /\ hist = [k \in VMRouter |-> NeverInit]

\* The test driver (empty stack) or a router being dispatched issues a call.
CanCall(t) ==
    /\ fatal[t] = NoFatal
    /\ \/ Depth(t) = 0
       \/ /\ Depth(t) > 0
          /\ Depth(t) < DepthOf(t)
          /\ Top(t).op = "route"
          /\ Top(t).pc = "dispatch"

Call(t, fr) ==
    /\ CanCall(t)
    /\ stack' = [stack EXCEPT ![t] = Append(@, fr)]
    /\ UNCHANGED <<map, lock, shardOf, fatal, hist>>

CallExists(t) ==
    \E a \in AddrsOf(t) : Call(t, Frame("exists", new(t, a), NoVal, "lock"))

CallInit(t) ==
    \E a \in AddrsOf(t), f \in Factories :
        Call(t, Frame("init", new(t, a), f, "lock"))

CallReset(t) ==
    \E a \in AddrsOf(t) : Call(t, Frame("reset", new(t, a), NoVal, "lock"))

CallRoute(t) ==
    \E a \in AddrsOf(t), p \in Payloads :
        Call(t, Frame("route", new(t, a), p, "storage"))

Running(t, op, pc) ==
    /\ fatal[t] = NoFatal
    /\ Depth(t) > 0
    /\ Top(t).op = op
    /\ Top(t).pc = pc

\* exists: contains_key takes the shard's read lock, looks up, releases.
ExistsLock(t) ==
    /\ Running(t, "exists", "lock")
    /\ LET s == shardOf[Top(t).key] IN
        /\ lock[s].w = NoHolder
        /\ lock' = [lock EXCEPT ![s].r = @ \cup {Holder(t)}]
    /\ stack' = SetTop(t, [Top(t) EXCEPT !.pc = "body"])
    /\ UNCHANGED <<map, shardOf, fatal, hist>>

\* Variant: the lookup ignores the thread id of the key.
contains_key_any_thread(key) ==
    \E k \in VMRouter :
        k.contract_address = key.contract_address /\ map[k] # NoEntry

contains_key(key) == map[key] # NoEntry

exists(t) ==
    /\ Running(t, "exists", "body")
    /\ lock' = Release(Holder(t))
    /\ stack' = SetTop(t, [Top(t) EXCEPT
                    !.pc = "done",
                    !.pre = hist[Top(t).key],
                    !.val = IF contains_key(Top(t).key) THEN "true" ELSE "false"])
    /\ UNCHANGED <<map, shardOf, fatal, hist>>

\* Variant: one lock for the whole map instead of one per shard.
WriteLockGlobal(t) ==
    /\ \A s \in Shards : lock[s].w = NoHolder /\ lock[s].r = {}
    /\ lock' = [lock EXCEPT ![shardOf[Top(t).key]].w = Holder(t)]

\* A blocking write-lock acquisition of the shard of the top frame's key.
WriteLock(t) ==
    LET s == shardOf[Top(t).key] IN
        /\ lock[s].w = NoHolder
        /\ lock[s].r = {}
        /\ lock' = [lock EXCEPT ![s].w = Holder(t)]

InitLock(t) ==
    /\ Running(t, "init", "lock")
    /\ WriteLock(t)
    /\ stack' = SetTop(t, [Top(t) EXCEPT !.pc = "body"])
    /\ UNCHANGED <<map, shardOf, fatal, hist>>

\* The value insert(..) returned: Some(old entry) or None.
is_some_never(old) == FALSE

is_some(old) == old # NoEntry

\* insert(..) replaces the value and returns the old one; is_some() panics.
init_storage(t) ==
    /\ Running(t, "init", "body")
    /\ LET k == Top(t).key
           old == map[k]
       IN  /\ map' = [map EXCEPT ![k] = Top(t).arg]
           /\ IF is_some(old)
              THEN /\ Panic(t, "duplicate", k)
                   /\ lock' = ReleaseAll(t)
                   /\ UNCHANGED hist
              ELSE /\ stack' = SetTop(t, [Top(t) EXCEPT
                                   !.pc = "done", !.val = "unit", !.pre = hist[k]])
                   /\ lock' = Release(Holder(t))
                   /\ hist' = [hist EXCEPT ![k] = Top(t).arg]
                   /\ UNCHANGED fatal
    /\ UNCHANGED shardOf

ResetLock(t) ==
    /\ Running(t, "reset", "lock")
    /\ WriteLock(t)
    /\ stack' = SetTop(t, [Top(t) EXCEPT !.pc = "body"])
    /\ UNCHANGED <<map, shardOf, fatal, hist>>

remove_nothing(key) == map

\* Variant: keys compared by contract_address alone.
remove_address(key) ==
    [k \in VMRouter |->
        IF k.contract_address = key.contract_address THEN NoEntry ELSE map[k]]

\* Variant: clear() instead of remove(&self).
remove_all(key) == [k \in VMRouter |-> NoEntry]

\* MOTSU_VM_ROUTERS.remove(&self)
remove(key) == [map EXCEPT ![key] = NoEntry]

reset_storage(t) ==
    /\ Running(t, "reset", "body")
    /\ map' = remove(Top(t).key)
    /\ hist' = [hist EXCEPT ![Top(t).key] =
                    IF @ = NeverInit THEN NeverInit ELSE WasReset]
    /\ lock' = Release(Holder(t))
    /\ stack' = SetTop(t, [Top(t) EXCEPT
                    !.pc = "done", !.val = "unit", !.pre = hist[Top(t).key]])
    /\ UNCHANGED <<shardOf, fatal>>

\* Outcome of the scoped entry access for key by thread t.
access_storage(t, key) ==
    LET l == lock[shardOf[key]] IN
    IF l.w # NoHolder /\ l.w[1] = t THEN "Locked"
    ELSE IF l.w # NoHolder \/ l.r # {} THEN "Wait"
    ELSE IF map[key] = NoEntry THEN "Absent"
    ELSE "Present"

\* Variant: a missing entry is treated as present.
storage_or_default(t, key) ==
    IF access_storage(t, key) = "Absent" THEN "Present" ELSE access_storage(t, key)

\* Variant: a blocking get_mut, which waits for the shard lock whoever holds it.
storage_blocking(t, key) ==
    IF access_storage(t, key) = "Locked" THEN "Wait" ELSE access_storage(t, key)

\* Variant: a try_get_mut, which reports a shard lock held by anyone as locked.
storage_try(t, key) ==
    IF access_storage(t, key) = "Wait" THEN "Locked" ELSE access_storage(t, key)

storage(t, key) == access_storage(t, key)

\* route, line 61: let storage = self.storage();
RouteStorage(t) ==
    /\ Running(t, "route", "storage")
    /\ LET k == Top(t).key
           out == storage(t, k)
       IN  /\ out # "Wait"
           /\ IF out = "Present"
              THEN /\ lock' = [lock EXCEPT ![shardOf[k]].w = Holder(t)]
                   /\ stack' = SetTop(t, [Top(t) EXCEPT
                                   !.pc = "create", !.pre = hist[k]])
                   /\ UNCHANGED fatal
              ELSE /\ Panic(t, IF out = "Absent" THEN "missing" ELSE "locked", k)
                   /\ lock' = ReleaseAll(t)
    /\ UNCHANGED <<map, shardOf, hist>>

\* The router a factory creates is a default instance of the factory's type.
create(factory) == factory

\* Variant: the thread keeps one router instance and hands it out again.
BoxCached(t) == <<t, 0>>

\* create, line 123: Box::new(..) is a new heap allocation, owned by the
\* local variable router of the route call that made it.
BoxNew(t) == Holder(t)

\* Variant: the factory is taken out of the map to create the router.
RouteCreateTakes(t) ==
    /\ Running(t, "route", "create")
    /\ stack' = SetTop(t, [Top(t) EXCEPT
                    !.pc = "drop", !.router = create(map[Top(t).key]),
                    !.inst = BoxNew(t)])
    /\ map' = [map EXCEPT ![Top(t).key] = NoEntry]
    /\ UNCHANGED <<lock, shardOf, fatal, hist>>

\* route, line 62: let mut router = storage.router_factory.create();
RouteCreate(t) ==
    /\ Running(t, "route", "create")
    /\ stack' = SetTop(t, [Top(t) EXCEPT
                    !.pc = "drop", !.router = create(map[Top(t).key]),
                    !.inst = BoxNew(t)])
    /\ UNCHANGED <<map, lock, shardOf, fatal, hist>>

\* Variant: the guard is kept until route returns.
KeepStorage(h) == lock

\* route, line 65: drop(storage);
DropStorage(h) == Release(h)

RouteDrop(t) ==
    /\ Running(t, "route", "drop")
    /\ lock' = DropStorage(Holder(t))
    /\ stack' = SetTop(t, [Top(t) EXCEPT !.pc = "dispatch"])
    /\ UNCHANGED <<map, shardOf, fatal, hist>>

\* Variant: a failure of the router is swallowed.
RouteResultWrapped(hres) == IF hres = "Err" THEN "Ok" ELSE hres

\* What VMRouter::route returns for the result of the router's dispatch.
RouteResult(hres) == hres

\* route, line 67: router.route(calldata) -- the router's own dispatch ends
\* with a result, which is the value of route.
route(t) ==
    /\ Running(t, "route", "dispatch")
    /\ \E r \in Results :
        stack' = SetTop(t, [Top(t) EXCEPT
                    !.pc = "done", !.hres = r, !.val = RouteResult(r)])
    /\ UNCHANGED <<map, lock, shardOf, fatal, hist>>

\* A finished call returns to its caller.
Return(t) ==
    /\ fatal[t] = NoFatal
    /\ Depth(t) > 0
    /\ Top(t).pc = "done"
    /\ stack' = [stack EXCEPT ![t] = SubSeq(@, 1, Len(@) - 1)]
    /\ UNCHANGED <<map, lock, shardOf, fatal, hist>>

Step(t) ==
    \/ ExistsLock(t) \/ exists(t)
    \/ InitLock(t) \/ init_storage(t)
    \/ ResetLock(t) \/ reset_storage(t)
    \/ RouteStorage(t) \/ RouteCreate(t) \/ RouteDrop(t)
    \/ route(t)
    \/ Return(t)

Next ==
    \/ \E t \in Threads : CallExists(t)
    \/ \E t \in Threads : CallInit(t)
    \/ \E t \in Threads : CallReset(t)
    \/ \E t \in Threads : CallRoute(t)
    \/ \E t \in Threads : ExistsLock(t)
    \/ \E t \in Threads : exists(t)
    \/ \E t \in Threads : InitLock(t)
    \/ \E t \in Threads : init_storage(t)
    \/ \E t \in Threads : ResetLock(t)
    \/ \E t \in Threads : reset_storage(t)
    \/ \E t \in Threads : RouteStorage(t)
    \/ \E t \in Threads : RouteCreate(t)
    \/ \E t \in Threads : RouteDrop(t)
    \/ \E t \in Threads : route(t)
    \/ \E t \in Threads : Return(t)

Spec == Init /\ [][Next]_vars

\* The construction of the router type inside create() runs while the
\* RefMut is held; here it calls back into the registry with a route.
CreateReenters(t) ==
    /\ Running(t, "route", "create")
    /\ Depth(t) < DepthOf(t)
    /\ \E a \in AddrsOf(t), p \in Payloads :
        stack' = [stack EXCEPT ![t] =
                    Append(@, Frame("route", new(t, a), p, "storage"))]
    /\ UNCHANGED <<map, lock, shardOf, fatal, hist>>

NextReentrant ==
    \/ Next
    \/ \E t \in Threads : CreateReenters(t)

SpecReentrant == Init /\ [][NextReentrant]_vars

TypeOK ==
    /\ map \in [VMRouter -> Factories \cup {NoEntry}]
    /\ hist \in [VMRouter -> Factories \cup {NeverInit, WasReset}]
    /\ shardOf \in [VMRouter -> Shards]
    /\ \A t \in Threads : Depth(t) <= DepthOf(t)

Levels(t) == 1 .. Depth(t)

\* Frame d of thread t holds a guard (RefMut or shard guard) of some shard.
HoldsGuard(t, d) ==
    \E s \in Shards : lock[s].w = <<t, d>> \/ <<t, d>> \in lock[s].r

\* C1: while a router created by a route call is being dispatched, that
\* route call holds no access to any registry entry.
C1_ReleasedBeforeDispatch ==
    \A t \in Threads : \A d \in Levels(t) :
        (stack[t][d].op = "route" /\ stack[t][d].pc = "dispatch")
            => ~HoldsGuard(t, d)

\* A router is executing while a nested route on the same key holds the entry.
C1_Witness ==
    \E t \in Threads :
        /\ Depth(t) = 2
        /\ stack[t][1].op = "route" /\ stack[t][1].pc = "dispatch"
        /\ stack[t][2].op = "route" /\ stack[t][2].pc = "drop"
        /\ stack[t][2].key = stack[t][1].key
        /\ lock[shardOf[stack[t][2].key]].w = <<t, 2>>

\* C4: route returns exactly the result of the router created by the
\* entry's factory: the value is the router's result, unchanged, and the
\* router is the one created from the factory registered for the key.
C4_PassThrough ==
    \A t \in Threads : \A d \in Levels(t) :
        LET f == stack[t][d] IN
        f.op = "route" =>
            /\ f.pc = "done" => (f.hres \in Results /\ f.val = f.hres)
            /\ f.pc \in {"drop", "dispatch", "done"} =>
                    (f.pre \in Factories /\ f.router = f.pre)

C4_Witness ==
    \E t \in Threads :
        /\ Depth(t) = 1
        /\ Top(t).op = "route" /\ Top(t).pc = "done"
        /\ Top(t).router = "F2" /\ Top(t).hres = "Err" /\ Top(t).val = "Err"

\* C5: on a key on which init was never performed, exists is false and
\* route panics (missing registration) before any router is created.
C5_NeverInit ==
    /\ [](\A t \in Threads : \A d \in Levels(t) :
            LET f == stack[t][d] IN
            /\ (f.op = "exists" /\ f.pc = "done" /\ f.pre = NeverInit)
                    => f.val = "false"
            /\ (f.op = "route" /\ f.pc # "storage") => f.pre # NeverInit)
    /\ [][\A t \in Threads :
            (/\ Running(t, "route", "storage")
             /\ hist[Top(t).key] = NeverInit
             /\ stack'[t] # stack[t])
            => fatal'[t] = [kind |-> "missing", key |-> Top(t).key]]_vars

C5_Witness ==
    \E t, u \in Threads :
        /\ fatal[t].kind = "missing"
        /\ hist[fatal[t].key] = NeverInit
        /\ Depth(u) > 0
        /\ Top(u).op = "exists" /\ Top(u).pc = "done"
        /\ Top(u).pre = NeverInit /\ Top(u).val = "false"

\* C6: after a successful init (not yet reset) exists is true and a second
\* init of the key panics with the duplicate-registration failure.
C6_InitThenDuplicate ==
    /\ [](\A t \in Threads : \A d \in Levels(t) :
            LET f == stack[t][d] IN
            (f.op = "exists" /\ f.pc = "done" /\ f.pre \in Factories)
                => f.val = "true")
    /\ [][\A t \in Threads :
            (/\ Running(t, "init", "body")
             /\ hist[Top(t).key] \in Factories
             /\ stack'[t] # stack[t])
            => fatal'[t] = [kind |-> "duplicate", key |-> Top(t).key]]_vars

C6_Witness ==
    \E t, u \in Threads :
        /\ fatal[t].kind = "duplicate"
        /\ hist[fatal[t].key] \in Factories
        /\ Depth(u) > 0
        /\ Top(u).op = "exists" /\ Top(u).pc = "done"
        /\ Top(u).pre \in Factories /\ Top(u).val = "true"

\* C7: after init then reset, exists is false, a new init succeeds and
\* stores its factory, and route creates its router from that factory.
C7_SlotReuse ==
    /\ [](\A t \in Threads : \A d \in Levels(t) :
            LET f == stack[t][d] IN
            /\ (f.op = "exists" /\ f.pc = "done" /\ f.pre = WasReset)
                    => f.val = "false"
            /\ (f.op = "route" /\ f.pc \in {"drop", "dispatch"})
                    => f.router = f.pre)
    /\ [][\A t \in Threads :
            (/\ Running(t, "init", "body")
             /\ hist[Top(t).key] = WasReset
             /\ stack'[t] # stack[t])
            => /\ fatal'[t] = NoFatal
               /\ Depth(t)' = Depth(t)
               /\ Top(t)'.pc = "done"
               /\ map'[Top(t).key] = Top(t).arg
               /\ hist'[Top(t).key] = Top(t).arg]_vars

C7_Witness ==
    \E t \in Threads :
        /\ Depth(t) > 0
        /\ Top(t).op = "init" /\ Top(t).pc = "done"
        /\ Top(t).pre = WasReset /\ Top(t).arg = "F2"
        /\ map[Top(t).key] = "F2"

\* C8: a duplicate init fails and leaves the entry holding its old factory.
C8_DuplicateKeepsEntry ==
    [][\A t \in Threads :
        (/\ Running(t, "init", "body")
         /\ map[Top(t).key] # NoEntry
         /\ stack'[t] # stack[t])
        => /\ fatal'[t].kind = "duplicate"
           /\ map'[Top(t).key] = map[Top(t).key]]_vars

\* Thread t holds the RefMut of key from an outer call still in progress.
HoldsAccess(t, key) ==
    \E d \in 1 .. (Depth(t) - 1) :
        /\ stack[t][d].op = "route"
        /\ stack[t][d].key = key
        /\ lock[shardOf[key]].w = <<t, d>>

\* C9: an entry access attempted while the same thread still holds an
\* access to the same key is never left waiting and ends in the
\* lock-already-held panic.
C9_ReentrantAccessFails ==
    /\ [](\A t \in Threads :
            (Running(t, "route", "storage") /\ HoldsAccess(t, Top(t).key))
                => ENABLED RouteStorage(t))
    /\ [][\A t \in Threads :
            (/\ Running(t, "route", "storage")
             /\ HoldsAccess(t, Top(t).key)
             /\ stack'[t] # stack[t])
            => fatal'[t] = [kind |-> "locked", key |-> Top(t).key]]_vars

C9_Witness ==
    \E t \in Threads :
        /\ fatal[t].kind = "locked"
        /\ map[fatal[t].key] # NoEntry

\* Two threads are inside init_storage on different keys: u holds the shard
\* lock for its insert, t is about to acquire the lock for its own.
ConcurrentInit(t, u) ==
    /\ t # u
    /\ Running(t, "init", "lock")
    /\ Running(u, "init", "body")
    /\ Top(t).key # Top(u).key

\* C10 as stated: of two concurrent inits on distinct keys, neither waits
\* on a lock the other holds.
C10_DistinctKeysNeverWait ==
    \A t, u \in Threads :
        ConcurrentInit(t, u) => lock[shardOf[Top(t).key]].w # Holder(u)

\* C10 amended: concurrent inits on distinct fresh keys both succeed; one
\* is never kept waiting by the other when the keys lie in different
\* shards, and when they share a shard the wait ends with the other's insert.
C10_DistinctKeysSucceed ==
    /\ [](\A t, u \in Threads :
            (ConcurrentInit(t, u)
                /\ shardOf[Top(t).key] # shardOf[Top(u).key])
            => ENABLED InitLock(t))
    /\ [][\A t \in Threads :
            (/\ Running(t, "init", "body")
             /\ hist[Top(t).key] \notin Factories
             /\ stack'[t] # stack[t])
            => /\ fatal'[t] = NoFatal
               /\ Top(t)'.pc = "done"
               /\ map'[Top(t).key] = Top(t).arg
               /\ lock'[shardOf[Top(t).key]].w = NoHolder]_vars

C10_Witness ==
    \E t, u \in Threads :
        /\ ConcurrentInit(t, u)
        /\ shardOf[Top(t).key] # shardOf[Top(u).key]
        /\ hist[Top(t).key] \notin Factories
        /\ hist[Top(u).key] \notin Factories

\* The router dispatched by the call at depth d finishes its own dispatch.
Finish(t, d) == Depth(t) = d /\ route(t)

\* The steps of init_storage and route calls in progress.
StepLive(t) ==
    \/ InitLock(t) \/ init_storage(t)
    \/ RouteStorage(t) \/ RouteCreate(t) \/ RouteDrop(t)
    \/ route(t)
    \/ Return(t)

\* Test threads that only register contracts and route calls to them.
NextLive ==
    \/ \E t \in Threads : CallInit(t)
    \/ \E t \in Threads : CallRoute(t)
    \/ \E t \in Threads : InitLock(t)
    \/ \E t \in Threads : init_storage(t)
    \/ \E t \in Threads : RouteStorage(t)
    \/ \E t \in Threads : RouteCreate(t)
    \/ \E t \in Threads : RouteDrop(t)
    \/ \E t \in Threads : route(t)
    \/ \E t \in Threads : Return(t)

\* Scheduling: a thread that can take a step of a call in progress keeps
\* being scheduled, a thread that finds a shard lock free infinitely often
\* eventually gets it, and every router's own dispatch terminates.  Callers
\* are free to stop issuing calls.
FairSpec ==
    /\ Init
    /\ [][NextLive]_vars
    /\ \A t \in Threads : SF_vars(StepLive(t))
    /\ \A t \in Threads : \A d \in 1 .. DepthOf(t) : SF_vars(Finish(t, d))

\* The call at depth d is a route issued by the router of the route at d-1.
NestedRoute(t, d) ==
    /\ fatal[t] = NoFatal
    /\ Depth(t) = d
    /\ d > 1
    /\ stack[t][d].op = "route"
    /\ stack[t][d - 1].op = "route"

\* A nested route has just been issued for a key that has an entry.
NestedIssued(t, d) ==
    /\ NestedRoute(t, d)
    /\ stack[t][d].pc = "storage"
    /\ map[stack[t][d].key] # NoEntry

RouteDone(t, d) ==
    /\ fatal[t] = NoFatal
    /\ Depth(t) = d
    /\ stack[t][d].op = "route"
    /\ stack[t][d].pc = "done"

\* The threads whose routers can issue a call at depth d.
Nesting(d) == {t \in Threads : DepthOf(t) >= d}

\* A call in progress leaves the stack only by returning when it is done
\* or by a panic.
ReturnsWhenDone(t) ==
    (Depth(t)' < Depth(t) /\ fatal'[t] = NoFatal) => Top(t).pc = "done"

\* C2: a route issued by the router of address A for a registered address
\* B # A of the same thread never panics in any of its own steps, and it
\* completes and returns and the outer route then completes; the only way
\* they fail to return is a panic raised by another call of one of the routers.
C2_CrossAddressReentrancy ==
    /\ [][\A d \in 2 .. MaxDepth : \A t \in Nesting(d) :
            /\ ReturnsWhenDone(t)
            /\ (/\ NestedRoute(t, d)
                /\ stack[t][d].key # stack[t][d - 1].key
                /\ (stack[t][d].pc = "storage" => map[stack[t][d].key] # NoEntry))
               => fatal'[t] = NoFatal]_vars
    /\ \A d \in 2 .. MaxDepth : \A t \in Nesting(d) :
        (NestedIssued(t, d) /\ stack[t][d].key # stack[t][d - 1].key)
            ~> (RouteDone(t, d - 1) \/ fatal[t] # NoFatal)

C2_Witness ==
    \E t \in Threads :
        /\ RouteDone(t, 2)
        /\ stack[t][1].op = "route" /\ stack[t][1].pc = "dispatch"
        /\ stack[t][1].key.contract_address = "A"
        /\ stack[t][2].key.contract_address = "B"

\* C3: a route issued by the router of address A for its own key, at any
\* nesting depth, never hits the lock-already-held panic nor any other panic
\* in its own steps, and both it and the outer route complete; the only way
\* they fail to return is a panic raised by another call of one of the routers.
C3_SelfReentrancy ==
    /\ [][\A d \in 2 .. MaxDepth : \A t \in Nesting(d) :
            /\ ReturnsWhenDone(t)
            /\ (/\ NestedRoute(t, d)
                /\ stack[t][d].key = stack[t][d - 1].key
                /\ (stack[t][d].pc = "storage" => map[stack[t][d].key] # NoEntry))
               => fatal'[t] = NoFatal]_vars
    /\ \A d \in 2 .. MaxDepth : \A t \in Nesting(d) :
        (NestedIssued(t, d) /\ stack[t][d].key = stack[t][d - 1].key)
            ~> (RouteDone(t, d - 1) \/ fatal[t] # NoFatal)

\* Routes on one key nested to the full depth, the innermost one complete.
C3_Witness ==
    \E t \in Threads :
        /\ RouteDone(t, MaxDepth)
        /\ \A d \in 1 .. (MaxDepth - 1) :
            /\ stack[t][d].op = "route" /\ stack[t][d].pc = "dispatch"
            /\ stack[t][d].key = stack[t][MaxDepth].key

\* C11: reset_storage raises no error; on a key with no entry it leaves the
\* whole registry unchanged, on a present key it removes the entry of that
\* key and of no other.
C11_ResetRemovesOnlyKey ==
    [][\A t \in Threads :
        (Running(t, "reset", "body") /\ stack'[t] # stack[t])
        => /\ fatal'[t] = NoFatal
           /\ Top(t)'.pc = "done"
           /\ map[Top(t).key] = NoEntry => map' = map
           /\ map'[Top(t).key] = NoEntry
           /\ \A k \in VMRouter \ {Top(t).key} : map'[k] = map[k]]_vars

\* A reset of a key that never had an entry has returned while another key
\* of the registry holds an entry.
C11_Witness ==
    \E t \in Threads :
        /\ Depth(t) > 0
        /\ Top(t).op = "reset" /\ Top(t).pc = "done"
        /\ Top(t).pre = NeverInit
        /\ \E k \in VMRouter : k # Top(t).key /\ map[k] # NoEntry

\* C12: a key has an entry exactly when a successful init of it has not been
\* followed by a reset, exists reports exactly that, and the registry holds
\* one factory per present key.
C12_PresenceTracking ==
    /\ map \in [VMRouter -> Factories \cup {NoEntry}]
    /\ \A k \in VMRouter : (map[k] # NoEntry) <=> (hist[k] \in Factories)
    /\ \A t \in Threads : \A d \in Levels(t) :
        LET f == stack[t][d] IN
        (f.op = "exists" /\ f.pc = "done")
            => ((f.val = "true") <=> (f.pre \in Factories))

\* exists has answered false for a key that was reset, inside a router's
\* dispatch, while the same address is registered by the other thread.
C12_Witness ==
    \E t, u \in Threads :
        /\ t # u
        /\ Depth(t) = 2
        /\ Top(t).op = "exists" /\ Top(t).pc = "done"
        /\ Top(t).pre = WasReset /\ Top(t).val = "false"
        /\ new(u, Top(t).key.contract_address) \in VMRouter
        /\ map[new(u, Top(t).key.contract_address)] # NoEntry

\* The lock of the shard of key is held by a thread other than t.
HeldByOther(t, key) ==
    LET l == lock[shardOf[key]] IN
    \/ l.w # NoHolder /\ l.w[1] # t
    \/ \E h \in l.r : h[1] # t

HeldBySelf(t, key) ==
    LET l == lock[shardOf[key]] IN l.w # NoHolder /\ l.w[1] = t

CallInitOne(t) ==
    CallInit(t) /\ Top(t)'.arg = (CHOOSE f \in Factories : TRUE)

NextCalls ==
    \/ \E t \in Threads : CallExists(t)
    \/ \E t \in Threads : CallInitOne(t)
    \/ \E t \in Threads : CallReset(t)
    \/ \E t \in Threads : CallRoute(t)
    \/ \E t \in Threads : ExistsLock(t)
    \/ \E t \in Threads : exists(t)
    \/ \E t \in Threads : InitLock(t)
    \/ \E t \in Threads : init_storage(t)
    \/ \E t \in Threads : ResetLock(t)
    \/ \E t \in Threads : reset_storage(t)
    \/ \E t \in Threads : RouteStorage(t)
    \/ \E t \in Threads : RouteCreate(t)
    \/ \E t \in Threads : RouteDrop(t)
    \/ \E t \in Threads : route(t)
    \/ \E t \in Threads : Return(t)

\* All four operations under the scheduling of FairSpec.
FairCalls ==
    /\ Init
    /\ [][NextCalls]_vars
    /\ \A t \in Threads : SF_vars(Step(t))
    /\ \A t \in Threads : \A d \in 1 .. DepthOf(t) : SF_vars(Finish(t, d))

\* Thread t holds no shard lock.
HoldsNothing(t) ==
    \A s \in Shards :
        /\ lock[s].w = NoHolder \/ lock[s].w[1] # t
        /\ \A h \in lock[s].r : h[1] # t

\* C14: under fair scheduling and terminating routers every thread is again
\* and again without a call in progress: each exists, init, reset and route
\* call, nested or not, leaves the stack, by returning when it is done or by
\* a panic, and a thread without a call in progress holds no shard lock.
C14_NoHang ==
    /\ \A t \in Threads : []<>(Depth(t) = 0)
    /\ [](\A t \in Threads : Depth(t) = 0 => HoldsNothing(t))
    /\ [][\A t \in Threads : ReturnsWhenDone(t)]_vars

\* A reset issued by a router waits for a shard lock that another thread holds.
C14_Witness ==
    \E t \in Threads :
        /\ Depth(t) = 2
        /\ Running(t, "reset", "lock")
        /\ HeldByOther(t, Top(t).key)

\* The route calls in progress, as <<thread, depth>>.
RouteCalls ==
    {h \in Threads \X (1 .. MaxDepth) :
        h[2] <= Depth(h[1]) /\ stack[h[1]][h[2]].op = "route"}

\* C15: a route call creates its router exactly once, from the factory of
\* the entry, while it holds the access and before the router is dispatched;
\* the router it dispatches is that instance, and no two route calls in
\* progress, nested ones included, have the same instance.
C15_OneFreshRouter ==
    /\ [](\A h \in RouteCalls :
            LET f == stack[h[1]][h[2]] IN
            /\ f.pc \in {"storage", "create"}
                    => (f.router = NoRouter /\ f.inst = NoBox)
            /\ f.pc \in {"drop", "dispatch", "done"}
                    => (f.router \in Factories /\ f.inst # NoBox)
            /\ \A g \in RouteCalls \ {h} :
                    f.inst # NoBox => stack[g[1]][g[2]].inst # f.inst)
    /\ [][\A t \in Threads : \A d \in Levels(t) :
            d <= Depth(t)' =>
                LET f == stack[t][d]
                    n == stack'[t][d]
                IN  /\ (n.router # f.router \/ n.inst # f.inst)
                        => /\ d = Depth(t)
                           /\ f.op = "route" /\ f.pc = "create"
                           /\ n.pc = "drop"
                           /\ HoldsGuard(t, d)
                           /\ f.router = NoRouter
                           /\ n.router = create(map[f.key])
                    /\ n.pc = "create" => f.pc \in {"storage", "create"}]_vars

\* An outer route and a route nested in it, on the same key and with
\* routers of the same type, both have their router.
C15_Witness ==
    \E t \in Threads :
        /\ Depth(t) = 2
        /\ stack[t][1].op = "route" /\ stack[t][1].pc = "dispatch"
        /\ stack[t][2].op = "route" /\ stack[t][2].pc = "dispatch"
        /\ stack[t][2].key = stack[t][1].key
        /\ stack[t][2].router = stack[t][1].router
        /\ stack[t][2].inst # stack[t][1].inst

\* C16: no step of route itself (taking the access, create, drop, the
\* router's own dispatch, a panic) and no step of exists changes the
\* registry; only calls the router issues do.  exists keeps no guard.
C16_DispatchReadsOnly ==
    [][\A t \in Threads :
        (/\ fatal[t] = NoFatal
         /\ Depth(t) > 0
         /\ Top(t).op \in {"route", "exists"}
         /\ stack'[t] # stack[t])
        => /\ map' = map
           /\ hist' = hist
           /\ (Top(t).op = "exists" /\ Top(t).pc = "body")
                => (\A s \in Shards : Holder(t) \notin lock'[s].r)]_vars

\* A route on a present key has returned the router's result and the entry
\* still holds the factory the router was created from, while another key
\* has an entry too.
C16_Witness ==
    \E t \in Threads :
        /\ Depth(t) = 1
        /\ Top(t).op = "route" /\ Top(t).pc = "done"
        /\ map[Top(t).key] = Top(t).router
        /\ \E k \in VMRouter : k # Top(t).key /\ map[k] # NoEntry

\* C17: the insert of init_storage, successful or not, and the remove of
\* reset_storage change the entry of no key but their own; for the same
\* address under another thread, what exists and route read stays as it was.
C17_KeyIsolation ==
    [][\A t \in Threads :
        (/\ fatal[t] = NoFatal
         /\ Depth(t) > 0
         /\ Top(t).op \in {"init", "reset"}
         /\ stack'[t] # stack[t])
        => /\ \A k \in VMRouter \ {Top(t).key} :
                /\ map'[k] = map[k]
                /\ hist'[k] = hist[k]
           /\ \A k \in VMRouter :
                (/\ k.thread_id # t
                 /\ k.contract_address = Top(t).key.contract_address)
                => /\ contains_key(k)' = contains_key(k)
                   /\ create(map[k])' = create(map[k])]_vars

\* One thread has reset and the other has registered the same address, and
\* only the other thread's key has an entry.
C17_Witness ==
    \E t, u \in Threads : \E a \in Addrs :
        /\ t # u
        /\ new(t, a) \in VMRouter /\ new(u, a) \in VMRouter
        /\ Depth(t) > 0
        /\ Top(t).op = "reset" /\ Top(t).pc = "done"
        /\ Top(t).key = new(t, a) /\ Top(t).pre \in Factories
        /\ map[new(t, a)] = NoEntry
        /\ map[new(u, a)] # NoEntry

\* The call at depth d is a reset issued by the router of a route on the
\* same key.
ResetsOwnKey(t, d) ==
    /\ fatal[t] = NoFatal
    /\ d > 1 /\ d <= Depth(t)
    /\ stack[t][d].op = "reset"
    /\ stack[t][d - 1].op = "route"
    /\ stack[t][d].key = stack[t][d - 1].key

\* C18: a reset of its own key issued by a router during its dispatch never
\* finds the shard lock held by its own thread, takes it as soon as no other
\* thread holds it, does not panic and removes the entry; a route whose entry
\* was reset during its dispatch still returns the router's result, and the
\* key has no entry then.
C18_ResetOwnKeyInDispatch ==
    /\ [](\A t \in Threads : \A d \in Levels(t) :
            /\ ResetsOwnKey(t, d) =>
                /\ ~HeldBySelf(t, stack[t][d].key) \/ stack[t][d].pc = "body"
                /\ stack[t][d - 1].pc = "dispatch"
                /\ (stack[t][d].pc = "lock" /\ ~HeldByOther(t, stack[t][d].key))
                        => ENABLED ResetLock(t)
                /\ stack[t][d].pc = "done" => ~contains_key(stack[t][d].key)
            /\ (/\ stack[t][d].op = "route"
                /\ stack[t][d].pc = "done"
                /\ hist[stack[t][d].key] = WasReset)
               => /\ stack[t][d].hres \in Results
                  /\ stack[t][d].val = RouteResult(stack[t][d].hres)
                  /\ ~contains_key(stack[t][d].key))
    /\ [][\A t \in Threads :
            (ResetsOwnKey(t, Depth(t)) /\ stack'[t] # stack[t])
                => fatal'[t] = NoFatal]_vars

\* A route has returned its router's result after the router reset the
\* route's own key.
C18_Witness ==
    \E t \in Threads :
        /\ Depth(t) = 1
        /\ Top(t).op = "route" /\ Top(t).pc = "done"
        /\ Top(t).val \in Results
        /\ hist[Top(t).key] = WasReset
        /\ map[Top(t).key] = NoEntry
====
